---- MODULE Spec2Model ----
(***************************************************************************)
(* Model of mcp-proxy's SSE front end: startSSEServer (the connect route,  *)
(* the message route, the "close" listener, SSEServer.close) and the       *)
(* binary's authHandler / verifyApiKey.                                     *)
(*                                                                         *)
(* Every `await` of a request handler is a suspension point: the handler   *)
(* of one request is a sequence of steps, and steps of other requests and  *)
(* I/O events (a response closing, the upstream answering) interleave      *)
(* between them.  authHandler, createServer, server.connect and            *)
(* server.close are supplied by the caller of startSSEServer and may       *)
(* resolve at any later time, or reject.                                   *)
(***************************************************************************)
EXTENDS Integers, Sequences, FiniteSets, TLC

\* ------------------------------------------------------------- bounds
MaxConn == 2
MaxPosts == 2

Conns == 1..MaxConn
PostIds == 1..MaxPosts

\* ------------------------------------------------------------- values
\* Strings that the code inspects (credentials, user ids) are sequences of
\* one-character strings, so that substring() can be computed.
NoKey == <<>>
SecretKey == <<"s">>
WrongKey == <<"w">>
Keys == {SecretKey, WrongKey}

\* A credential longer than the eight characters substring(0, 8) keeps.
LongKey == <<"k", "1", "2", "3", "4", "5", "6", "7", "8", "9">>

NoUser == <<>>
U1 == <<"u", "1">>

\* An env mapping is followed through one key, T: `Unset` when the mapping
\* does not hold it.  The mapping itself may be undefined.
Unset == "unset"
UndefinedEnv == [defined |-> FALSE, T |-> Unset]
EmptyEnv == [defined |-> TRUE, T |-> Unset]
EnvT(v) == [defined |-> TRUE, T |-> v]

\* `data.env || {}`
OrEmpty(e) == IF e.defined THEN e ELSE EmptyEnv

Min(a, b) == IF a < b THEN a ELSE b

\* String.prototype.substring(from, to) for 0 <= from <= to.
Substring(s, from, to) == SubSeq(s, from + 1, Min(to, Len(s)))

\* The user id made of the whole credential.
UserPrefix_WholeKey(apiKey) == <<"u", "s", "e", "r", "-">> \o apiKey

\* `user-${apiKey.substring(0, 8)}`
UserPrefix(apiKey) == <<"u", "s", "e", "r", "-">> \o Substring(apiKey, 0, 8)

\* AuthResult: null, or { userId, ... }.  "threw" stands for a rejected promise.
Null == [kind |-> "null", userId |-> NoUser, env |-> UndefinedEnv]
Threw == [kind |-> "threw", userId |-> NoUser, env |-> UndefinedEnv]
Identity(u, e) == [kind |-> "identity", userId |-> u, env |-> e]
NotCalled == [kind |-> "notcalled", userId |-> NoUser, env |-> UndefinedEnv]
Pending == [kind |-> "pending", userId |-> NoUser, env |-> UndefinedEnv]

\* What the delegate endpoint can answer to fetch().
NoDelegateCall ==
    [kind |-> "nocall", valid |-> "absent", userId |-> NoUser, env |-> UndefinedEnv]
DelegateOutcomes ==
    {[kind |-> "neterror", valid |-> "absent", userId |-> NoUser, env |-> UndefinedEnv],
     [kind |-> "status", valid |-> "absent", userId |-> NoUser, env |-> UndefinedEnv],
     [kind |-> "badbody", valid |-> "absent", userId |-> NoUser, env |-> UndefinedEnv],
     [kind |-> "json", valid |-> "false", userId |-> NoUser, env |-> UndefinedEnv],
     [kind |-> "json", valid |-> "absent", userId |-> U1, env |-> UndefinedEnv],
     [kind |-> "json", valid |-> "true", userId |-> NoUser, env |-> UndefinedEnv],
     [kind |-> "json", valid |-> "true", userId |-> U1, env |-> UndefinedEnv]}

\* The configurations startSSEServer is started with: the binary passes an
\* authHandler (with or without AUTH_SERVER_URL); a caller of the library
\* may pass a static apiKey, or neither, or an authHandler and an apiKey.
Configs ==
    {[authHandler |-> TRUE, apiKey |-> NoKey, remoteVerification |-> TRUE],
     [authHandler |-> TRUE, apiKey |-> NoKey, remoteVerification |-> FALSE],
     [authHandler |-> TRUE, apiKey |-> SecretKey, remoteVerification |-> TRUE],
     [authHandler |-> FALSE, apiKey |-> SecretKey, remoteVerification |-> FALSE],
     [authHandler |-> FALSE, apiKey |-> NoKey, remoteVerification |-> FALSE]}

\* What createServer can do: return a server, throw a Response, throw anything else.
FactoryNotCalled == [kind |-> "notcalled", status |-> 0, statusText |-> ""]
FactoryOk == [kind |-> "ok", status |-> 0, statusText |-> ""]
FactoryResults ==
    {FactoryOk,
     [kind |-> "response", status |-> 403, statusText |-> "Forbidden"],
     [kind |-> "error", status |-> 0, statusText |-> ""]}

\* The sessionId query parameter of a POST: absent, a transport's UUID, or the
\* name of a member every plain object inherits ("constructor", "__proto__").
MissingParam == [kind |-> "missing", n |-> 0]
ProtoParam == [kind |-> "proto", n |-> 0]
Uuid(c) == [kind |-> "uuid", n |-> c]
SessionParams == {MissingParam, ProtoParam} \cup {Uuid(c) : c \in Conns}

NoTarget == 0

VARIABLES
    config,            \* the options startSSEServer was called with
    pc,                \* where each connect request's handler stands: "new", an await
                       \* ("auth", "create", "connect", "attached", "send"), or how it
                       \* ended ("rejected", "failed", "attachFailed", "done", "threw")
    requestApiKey,     \* the credential each connect request carried
    authResult,        \* what authHandler resolved to for each connect request
    delegate,          \* what the delegate endpoint answered for each connect request
    factory,           \* what createServer did for each connect request
    status,            \* the HTTP status written to each connect request's response
    text,              \* the body written with it
    resState,          \* each response: "open", "ended" (res.end() called), "closed"
    activeTransports,  \* the registry: sessionId -> { userId, apiKey }
    inserted,          \* whether the connect request ever registered a session
    closed,            \* the handler's local `closed`
    listener,          \* whether res.on("close") has been registered
    tpc,               \* the close listener: "idle", "closing" (awaiting server.close), "done"
    started,           \* the transport's _sseResponse is set
    channel,           \* what has been written to each session's push-channel
    onConnectCalls,
    onCloseCalls,
    post,              \* the POSTs to /messages
    authCalls,         \* how often authHandler was called for each connect request
    created,           \* the userId and env each createServer call was given
    processEnv,        \* process.env.T
    workerEnv,         \* T in the environment the upstream worker was spawned with
    upstreamUp,        \* the upstream worker runs and its transport is connected
    forwarded,         \* the POSTs whose message went to the upstream, in that order
    closeThrew,        \* whether server.close() threw in each close listener
    shutdown,          \* SSEServer.close(): "idle" (not called), "closing" (in its
                       \* loop), "waiting" (httpServer.close called), "resolved"
    toClose            \* the sessions its loop has still to close

vars == <<config, pc, requestApiKey, authResult, delegate, factory, status, text, resState,
          activeTransports, inserted, closed, listener, tpc, started, channel,
          onConnectCalls, onCloseCalls, post, authCalls, created, processEnv,
          workerEnv, upstreamUp, forwarded, closeThrew, shutdown, toClose>>

NotCreated == [called |-> FALSE, userId |-> NoUser, env |-> UndefinedEnv]

NewPost == [state |-> "new", param |-> MissingParam, known |-> FALSE,
            target |-> NoTarget, status |-> 0, rpcId |-> 1]

Init ==
    /\ config \in Configs
    /\ pc = [c \in Conns |-> "new"]
    /\ requestApiKey = [c \in Conns |-> NoKey]
    /\ authResult = [c \in Conns |-> NotCalled]
    /\ delegate = [c \in Conns |-> NoDelegateCall]
    /\ factory = [c \in Conns |-> FactoryNotCalled]
    /\ status = [c \in Conns |-> 0]
    /\ text = [c \in Conns |-> ""]
    /\ resState = [c \in Conns |-> "open"]
    /\ activeTransports = <<>>
    /\ inserted = [c \in Conns |-> FALSE]
    /\ closed = [c \in Conns |-> FALSE]
    /\ listener = [c \in Conns |-> FALSE]
    /\ tpc = [c \in Conns |-> "idle"]
    /\ started = [c \in Conns |-> FALSE]
    /\ channel = [c \in Conns |-> <<>>]
    /\ onConnectCalls = [c \in Conns |-> 0]
    /\ onCloseCalls = [c \in Conns |-> 0]
    /\ post = [i \in PostIds |-> NewPost]
    /\ authCalls = [c \in Conns |-> 0]
    /\ created = [c \in Conns |-> NotCreated]
    /\ processEnv = Unset
    /\ workerEnv = processEnv
    /\ upstreamUp = TRUE
    /\ forwarded = <<>>
    /\ closeThrew = [c \in Conns |-> FALSE]
    /\ shutdown = "idle"
    /\ toClose = {}

\* ------------------------------------------------------ authentication

\* Header first, then the apiKey query parameter.
RequestApiKey(header, query) == IF header # NoKey THEN header ELSE query

\* verifyApiKey without its try/catch: a failed fetch and an unparsable body
\* reject the promise.
VerifyApiKey_NoCatch(apiKey, hasUrl, d) ==
    IF ~hasUrl THEN Null
    ELSE IF d.kind \in {"neterror", "badbody"} THEN Threw
    ELSE IF d.kind = "status" THEN Null
    ELSE IF d.valid = "true"
         THEN Identity(IF d.userId # NoUser THEN d.userId ELSE UserPrefix(apiKey),
                       OrEmpty(d.env))
         ELSE Null

\* verifyApiKey: everything but a success status with a truthy `valid` is null;
\* the try/catch turns a failed fetch and an unparsable body into null.
VerifyApiKey(apiKey, hasUrl, d) ==
    IF ~hasUrl THEN Null
    ELSE IF d.kind = "neterror" THEN Null
    ELSE IF d.kind = "status" THEN Null
    ELSE IF d.kind = "badbody" THEN Null
    ELSE IF d.valid = "true"
         THEN Identity(IF d.userId # NoUser THEN d.userId ELSE UserPrefix(apiKey),
                       OrEmpty(d.env))
         ELSE Null

\* The authHandler without its last branch: no identity without AUTH_SERVER_URL.
AuthHandler_NoPermissive(apiKey, remoteVerification, d) ==
    IF apiKey = NoKey THEN Null
    ELSE VerifyApiKey(apiKey, remoteVerification, d)

\* The binary's authHandler.
AuthHandler(apiKey, remoteVerification, d) ==
    IF apiKey = NoKey THEN Null
    ELSE IF remoteVerification THEN VerifyApiKey(apiKey, TRUE, d)
    ELSE Identity(UserPrefix(apiKey), UndefinedEnv)

\* The null check left out.
Falsy_Never(r) == FALSE

\* `!authResult`
Falsy(r) == r.kind = "null"

\* The comparison inverted (=== for !==).
StaticKeyMismatch_Inverted(apiKey, k) == apiKey # NoKey /\ k = apiKey

\* `apiKey && requestApiKey !== apiKey`
StaticKeyMismatch(apiKey, k) == apiKey # NoKey /\ k # apiKey

\* res.writeHead(s).end(t)
Reply(c, s, t) ==
    /\ status' = [status EXCEPT ![c] = s]
    /\ text' = [text EXCEPT ![c] = t]
    /\ resState' = [resState EXCEPT ![c] = IF @ = "open" THEN "ended" ELSE @]

\* The binary's createServer up to its return: each entry of a defined env is
\* written to process.env, and nothing takes it back.
ApplyEnv(pe, env) == IF env.defined /\ env.T # Unset THEN env.T ELSE pe

\* createServer(req, userId, env) is called.
CallCreateServer(c, userId, env) ==
    /\ created' = [created EXCEPT ![c] = [called |-> TRUE, userId |-> userId, env |-> env]]
    /\ processEnv' = ApplyEnv(processEnv, env)

\* The HTTP server accepts requests until httpServer.close() is called.
Listening == shutdown \in {"idle", "closing"}

\* GET <endpoint>: the credential is extracted and checked up to the first await.
ConnectRequest(c, header, query) ==
    /\ Listening
    /\ pc[c] = "new"
    /\ \A d \in Conns : d < c => pc[d] # "new"
    /\ LET k == RequestApiKey(header, query) IN
       /\ requestApiKey' = [requestApiKey EXCEPT ![c] = k]
       /\ IF k = NoKey
          THEN /\ Reply(c, 401, "Unauthorized: Missing API key")
               /\ pc' = [pc EXCEPT ![c] = "rejected"]
               /\ UNCHANGED <<authResult, authCalls, created, processEnv>>
          ELSE IF config.authHandler
          THEN /\ pc' = [pc EXCEPT ![c] = "auth"]
               /\ authResult' = [authResult EXCEPT ![c] = Pending]
               /\ authCalls' = [authCalls EXCEPT ![c] = @ + 1]
               /\ UNCHANGED <<status, text, resState, created, processEnv>>
          ELSE IF StaticKeyMismatch(config.apiKey, k)
          THEN /\ Reply(c, 401, "Unauthorized: Invalid API key")
               /\ pc' = [pc EXCEPT ![c] = "rejected"]
               /\ UNCHANGED <<authResult, authCalls, created, processEnv>>
          ELSE /\ pc' = [pc EXCEPT ![c] = "create"]
               /\ CallCreateServer(c, NoUser, UndefinedEnv)
               /\ UNCHANGED <<authResult, authCalls, status, text, resState>>
    /\ UNCHANGED <<shutdown, toClose,
                   config, delegate, factory, activeTransports, inserted, closed,
                   listener, tpc, started, channel, onConnectCalls, onCloseCalls, post,
                   workerEnv, upstreamUp, forwarded, closeThrew>>

\* `await authHandler(requestApiKey)` resolves.
AuthReturn(c, d) ==
    /\ pc[c] = "auth"
    /\ LET r == AuthHandler(requestApiKey[c], config.remoteVerification, d) IN
       /\ authResult' = [authResult EXCEPT ![c] = r]
       /\ delegate' = [delegate EXCEPT ![c] = d]
       /\ IF r.kind = "threw"
          THEN /\ pc' = [pc EXCEPT ![c] = "threw"]
               /\ UNCHANGED <<status, text, resState, created, processEnv>>
          ELSE IF Falsy(r)
          THEN /\ Reply(c, 401, "Unauthorized: Invalid API key")
               /\ pc' = [pc EXCEPT ![c] = "rejected"]
               /\ UNCHANGED <<created, processEnv>>
          ELSE /\ pc' = [pc EXCEPT ![c] = "create"]
               /\ CallCreateServer(c, r.userId, r.env)
               /\ UNCHANGED <<status, text, resState>>
    /\ UNCHANGED <<shutdown, toClose,
                   config, requestApiKey, factory, activeTransports, inserted, closed,
                   listener, tpc, started, channel, onConnectCalls, onCloseCalls, post,
                   authCalls, workerEnv, upstreamUp, forwarded, closeThrew>>

\* The userId the handler holds after authentication (undefined without authHandler).
UserIdOf(c) == IF authResult[c].kind = "identity" THEN authResult[c].userId ELSE NoUser

\* The env it holds (undefined without authHandler).
EnvOf(c) == IF authResult[c].kind = "identity" THEN authResult[c].env ELSE UndefinedEnv

\* ------------------------------------------------- session construction

Entry(c) == [userId |-> UserIdOf(c), env |-> EnvOf(c), apiKey |-> requestApiKey[c]]

\* activeTransports[transport.sessionId] = { transport, userId, env, apiKey }
Register(c) == activeTransports' = (c :> Entry(c)) @@ activeTransports

\* The registry emptied, whichever session closed.
Unregister_All(c) == activeTransports' = <<>>

\* delete activeTransports[transport.sessionId]
Unregister(c) ==
    activeTransports' = [s \in DOMAIN activeTransports \ {c} |-> activeTransports[s]]

\* A write to the push-channel reaches the peer only while the response is open.
Written(c, m) == IF resState[c] = "open" THEN Append(channel[c], m) ELSE channel[c]

ConnectionNotification == [kind |-> "sse/connection", issuer |-> NoTarget, id |-> 0]
EndpointEvent == [kind |-> "endpoint", issuer |-> NoTarget, id |-> 0]

\* The catch block without its `instanceof Response` branch.
FailureStatus_Always500(r) == 500

\* The catch block of createServer: a thrown Response is answered with its own
\* status and statusText, anything else with 500.
FailureStatus(r) == IF r.kind = "response" THEN r.status ELSE 500
FailureText(r) == IF r.kind = "response" THEN r.statusText ELSE "Error creating server"

\* `await createServer(req, userId, env)` settles.  On success the session is
\* registered, `closed` is initialised, the "close" listener is installed and
\* server.connect(transport) is called, all before the next await.
CreateReturn(c, r) ==
    /\ pc[c] = "create"
    /\ IF r.kind = "ok"
       THEN /\ Register(c)
            /\ inserted' = [inserted EXCEPT ![c] = TRUE]
            /\ closed' = [closed EXCEPT ![c] = FALSE]
            /\ listener' = [listener EXCEPT ![c] = TRUE]
            /\ pc' = [pc EXCEPT ![c] = "connect"]
            /\ UNCHANGED <<status, text, resState>>
       ELSE /\ Reply(c, FailureStatus(r), FailureText(r))
            /\ pc' = [pc EXCEPT ![c] = "failed"]
            /\ UNCHANGED <<activeTransports, inserted, closed, listener>>
    /\ factory' = [factory EXCEPT ![c] = r]
    /\ UNCHANGED <<shutdown, toClose,
                   config, requestApiKey, authResult, delegate, tpc, started,
                   channel, onConnectCalls, onCloseCalls, post, authCalls, created,
                   processEnv, workerEnv, upstreamUp, forwarded, closeThrew>>

\* Inside server.connect: transport.start() writes the 200 head and the
\* endpoint event (which tells the peer its sessionId) and sets _sseResponse.
ConnectStart(c) ==
    /\ pc[c] = "connect"
    /\ pc' = [pc EXCEPT ![c] = "attached"]
    /\ status' = [status EXCEPT ![c] = 200]
    /\ started' = [started EXCEPT ![c] = TRUE]
    /\ channel' = [channel EXCEPT ![c] = Written(c, EndpointEvent)]
    /\ UNCHANGED <<shutdown, toClose,
                   config, requestApiKey, authResult, delegate, factory, text, resState,
                   activeTransports, inserted, closed, listener, tpc,
                   onConnectCalls, onCloseCalls, post, authCalls, created,
                   processEnv, workerEnv, upstreamUp, forwarded, closeThrew>>

\* The catch block of the connect route: if (!closed) res.writeHead(500).end(...).
\* writeHead throws once the head has been sent, and the handler rejects.
CatchConnectError(c) ==
    IF closed[c]
    THEN /\ pc' = [pc EXCEPT ![c] = "attachFailed"]
         /\ UNCHANGED <<status, text, resState>>
    ELSE IF status[c] = 0
    THEN /\ Reply(c, 500, "Error connecting to server")
         /\ pc' = [pc EXCEPT ![c] = "attachFailed"]
    ELSE /\ pc' = [pc EXCEPT ![c] = "threw"]
         /\ UNCHANGED <<status, text, resState>>

\* `await server.connect(transport)` resolves; transport.send(sse/connection)
\* is called at once: it writes, or throws "Not connected" without _sseResponse.
ConnectReturn(c) ==
    /\ pc[c] = "attached"
    /\ IF started[c]
       THEN /\ channel' = [channel EXCEPT ![c] = Written(c, ConnectionNotification)]
            /\ pc' = [pc EXCEPT ![c] = "send"]
            /\ UNCHANGED <<status, text, resState>>
       ELSE /\ CatchConnectError(c)
            /\ UNCHANGED channel
    /\ UNCHANGED <<shutdown, toClose,
                   config, requestApiKey, authResult, delegate, factory, activeTransports,
                   inserted, closed, listener, tpc, started, onConnectCalls,
                   onCloseCalls, post, authCalls, created, processEnv, workerEnv,
                   upstreamUp, forwarded, closeThrew>>

\* `await server.connect(transport)` rejects, before or after the transport started.
ConnectFail(c) ==
    /\ pc[c] \in {"connect", "attached"}
    /\ CatchConnectError(c)
    /\ UNCHANGED <<shutdown, toClose,
                   config, requestApiKey, authResult, delegate, factory, activeTransports,
                   inserted, closed, listener, tpc, started, channel,
                   onConnectCalls, onCloseCalls, post, authCalls, created,
                   processEnv, workerEnv, upstreamUp, forwarded, closeThrew>>

\* `await transport.send(...)` resolves: onConnect?.(server, userId).
SendReturn(c) ==
    /\ pc[c] = "send"
    /\ onConnectCalls' = [onConnectCalls EXCEPT ![c] = @ + 1]
    /\ pc' = [pc EXCEPT ![c] = "done"]
    /\ UNCHANGED <<shutdown, toClose,
                   config, requestApiKey, authResult, delegate, factory, status, text,
                   resState, activeTransports, inserted, closed, listener, tpc,
                   started, channel, onCloseCalls, post, authCalls, created,
                   processEnv, workerEnv, upstreamUp, forwarded, closeThrew>>

\* ------------------------------------------------------------ teardown

\* The response emits "close", once: the peer disconnected, or the response
\* was ended.  The transport's own listener (installed by start()) clears
\* _sseResponse.  The route's listener, if installed by now, sets `closed`
\* and calls server.close(); a listener installed later never runs.
ResClose(c) ==
    /\ pc[c] # "new"
    /\ resState[c] \in {"open", "ended"}
    /\ resState' = [resState EXCEPT ![c] = "closed"]
    /\ started' = [started EXCEPT ![c] = FALSE]
    /\ IF listener[c]
       THEN /\ closed' = [closed EXCEPT ![c] = TRUE]
            /\ tpc' = [tpc EXCEPT ![c] = "closing"]
       ELSE UNCHANGED <<closed, tpc>>
    /\ UNCHANGED <<shutdown, toClose,
                   config, pc, requestApiKey, authResult, delegate, factory, status, text,
                   activeTransports, inserted, listener, channel, onConnectCalls,
                   onCloseCalls, post, authCalls, created, processEnv, workerEnv,
                   upstreamUp, forwarded, closeThrew>>

\* The close listener without its try/catch: an error of server.close()
\* rejects the listener's promise before the delete and the onClose call.
ServerCloseReturn_NoCatch(c, threw) ==
    /\ tpc[c] = "closing"
    /\ threw \in BOOLEAN
    /\ closeThrew' = [closeThrew EXCEPT ![c] = threw]
    /\ IF threw
       THEN /\ tpc' = [tpc EXCEPT ![c] = "threw"]
            /\ UNCHANGED <<activeTransports, onCloseCalls>>
       ELSE /\ Unregister(c)
            /\ onCloseCalls' = [onCloseCalls EXCEPT ![c] = @ + 1]
            /\ tpc' = [tpc EXCEPT ![c] = "done"]
    /\ UNCHANGED <<shutdown, toClose,
                   config, pc, requestApiKey, authResult, delegate, factory, status, text,
                   resState, inserted, closed, listener, started, channel,
                   onConnectCalls, post, authCalls, created, processEnv, workerEnv,
                   upstreamUp, forwarded>>

\* `await server.close()` settles; whether it resolved or threw (logged), the
\* entry is deleted and onClose?.(server) is called.
ServerCloseReturn(c, threw) ==
    /\ tpc[c] = "closing"
    /\ threw \in BOOLEAN
    /\ closeThrew' = [closeThrew EXCEPT ![c] = threw]
    /\ Unregister(c)
    /\ onCloseCalls' = [onCloseCalls EXCEPT ![c] = @ + 1]
    /\ tpc' = [tpc EXCEPT ![c] = "done"]
    /\ UNCHANGED <<shutdown, toClose,
                   config, pc, requestApiKey, authResult, delegate, factory, status, text,
                   resState, inserted, closed, listener, started, channel,
                   onConnectCalls, post, authCalls, created, processEnv, workerEnv,
                   upstreamUp, forwarded>>

\* ------------------------------------------------------- message route

\* A lookup that takes the first registered session, whatever the sessionId.
Lookup_FirstSession(param) ==
    IF param.kind = "uuid" /\ DOMAIN activeTransports # {}
    THEN [kind |-> "entry",
          n |-> CHOOSE s \in DOMAIN activeTransports :
                   \A t \in DOMAIN activeTransports : s <= t]
    ELSE IF param.kind = "proto"
    THEN [kind |-> "inherited", n |-> NoTarget]
    ELSE [kind |-> "undefined", n |-> NoTarget]

\* activeTransports[sessionId] on a plain object: an own entry, else a member
\* inherited from Object.prototype (truthy, without a transport), else undefined.
Lookup(param) ==
    IF param.kind = "uuid" /\ param.n \in DOMAIN activeTransports
    THEN [kind |-> "entry", n |-> param.n]
    ELSE IF param.kind = "proto"
    THEN [kind |-> "inherited", n |-> NoTarget]
    ELSE [kind |-> "undefined", n |-> NoTarget]

\* The message route re-running authentication for the session it found.
MessageRouteAuth_Reauthenticate(s) == authCalls' = [authCalls EXCEPT ![s] = @ + 1]

\* The message route reads no credential and calls no authHandler.
MessageRouteAuth(s) == UNCHANGED authCalls

\* POST /messages?sessionId=<param>, up to the first await of
\* transport.handlePostMessage (which answers 500 before start() and otherwise
\* reads the body).  Reading `.transport.handlePostMessage` of an inherited
\* member throws a TypeError: the handler rejects and nothing is answered.
PostArrive(i, param) ==
    /\ Listening
    /\ post[i].state = "new"
    /\ \A j \in PostIds : j < i => post[j].state # "new"
    /\ LET activeSession == Lookup(param)
           known == param.kind = "uuid" /\ param.n \in DOMAIN activeTransports
           p == [post[i] EXCEPT !.param = param, !.known = known]
       IN /\ post' = [post EXCEPT ![i] =
             IF param.kind = "missing"
             THEN [p EXCEPT !.state = "rejected", !.status = 400]
             ELSE IF activeSession.kind = "undefined"
             THEN [p EXCEPT !.state = "rejected", !.status = 400]
             ELSE IF activeSession.kind = "inherited"
             THEN [p EXCEPT !.state = "threw"]
             ELSE IF ~started[activeSession.n]
             THEN [p EXCEPT !.state = "refused", !.status = 500,
                            !.target = activeSession.n]
             ELSE [p EXCEPT !.state = "reading", !.target = activeSession.n]]
          /\ IF activeSession.kind = "entry"
             THEN MessageRouteAuth(activeSession.n)
             ELSE UNCHANGED authCalls
    /\ UNCHANGED <<shutdown, toClose,
                   config, pc, requestApiKey, authResult, delegate, factory, status, text,
                   resState, activeTransports, inserted, closed, listener, tpc,
                   started, channel, onConnectCalls, onCloseCalls, created, processEnv,
                   workerEnv, upstreamUp, forwarded, closeThrew>>

\* The body has been read: 202, and the message goes to the session's server,
\* whose handler forwards the request over the shared client.
PostBody(i) ==
    /\ post[i].state = "reading"
    /\ post' = [post EXCEPT ![i] = [@ EXCEPT !.state = "forwarded", !.status = 202]]
    /\ forwarded' = Append(forwarded, i)
    /\ UNCHANGED <<shutdown, toClose,
                   config, pc, requestApiKey, authResult, delegate, factory, status, text,
                   resState, activeTransports, inserted, closed, listener, tpc,
                   started, channel, onConnectCalls, onCloseCalls, authCalls, created,
                   processEnv, workerEnv, upstreamUp, closeThrew>>

\* The session whose server awaits the upstream's answer to request i.
Owner(i) == post[i].target

\* The upstream answers request i; the owner's server sends the response on its
\* transport (dropped when the transport is no longer connected).
UpstreamRespond(i) ==
    /\ upstreamUp
    /\ post[i].state = "forwarded"
    /\ post' = [post EXCEPT ![i] = [@ EXCEPT !.state = "answered"]]
    /\ LET o == Owner(i)
           m == [kind |-> "response", issuer |-> post[i].param.n, id |-> post[i].rpcId]
       IN channel' = IF started[o] THEN [channel EXCEPT ![o] = Written(o, m)]
                     ELSE channel
    /\ UNCHANGED <<shutdown, toClose,
                   config, pc, requestApiKey, authResult, delegate, factory, status, text,
                   resState, activeTransports, inserted, closed, listener, tpc,
                   started, onConnectCalls, onCloseCalls, authCalls, created,
                   processEnv, workerEnv, upstreamUp, forwarded, closeThrew>>

\* The upstream worker exits, or its transport fails.  The binary attaches
\* nothing to that event but a debug logger, and startSSEServer holds no
\* reference to the client: no session's state changes.
UpstreamFail ==
    /\ upstreamUp
    /\ upstreamUp' = FALSE
    /\ UNCHANGED <<shutdown, toClose,
                   config, pc, requestApiKey, authResult, delegate, factory, status, text,
                   resState, activeTransports, inserted, closed, listener, tpc,
                   started, channel, onConnectCalls, onCloseCalls, post, authCalls,
                   created, processEnv, workerEnv, forwarded, closeThrew>>

\* ------------------------------------------------------------ shutdown

\* transport.close(): ends the response if the transport has one and forgets it.
TransportClose(s) ==
    /\ resState' = [resState EXCEPT ![s] = IF started[s] /\ @ = "open" THEN "ended" ELSE @]
    /\ started' = [started EXCEPT ![s] = FALSE]

\* The loop of SSEServer.close() goes on with the sessions `rest`: the next
\* transport.close() is called, or, none being left, httpServer.close().
\* Object.values lists the entries in insertion order, which the state does
\* not record: any order is taken.
CloseLoop(rest) ==
    IF rest = {}
    THEN /\ shutdown' = "waiting"
         /\ toClose' = {}
         /\ UNCHANGED <<resState, started>>
    ELSE \E s \in rest :
            /\ TransportClose(s)
            /\ toClose' = rest \ {s}
            /\ shutdown' = "closing"

\* SSEServer.close() is called: the sessions registered now are the ones its
\* loop will close.
CloseCall ==
    /\ shutdown = "idle"
    /\ CloseLoop(DOMAIN activeTransports)
    /\ UNCHANGED <<config, pc, requestApiKey, authResult, delegate, factory, status, text,
                   activeTransports, inserted, closed, listener, tpc, channel,
                   onConnectCalls, onCloseCalls, post, authCalls, created,
                   processEnv, workerEnv, upstreamUp, forwarded, closeThrew>>

\* `await session.transport.close()` resolves.
CloseNext ==
    /\ shutdown = "closing"
    /\ CloseLoop(toClose)
    /\ UNCHANGED <<config, pc, requestApiKey, authResult, delegate, factory, status, text,
                   activeTransports, inserted, closed, listener, tpc, channel,
                   onConnectCalls, onCloseCalls, post, authCalls, created,
                   processEnv, workerEnv, upstreamUp, forwarded, closeThrew>>

\* The callback of httpServer.close() runs once no connection is left, and
\* resolves the promise that SSEServer.close() returned.
CloseResolve ==
    /\ shutdown = "waiting"
    /\ \A c \in Conns : pc[c] # "new" => resState[c] = "closed"
    /\ \A i \in PostIds : post[i].state # "reading"
    /\ shutdown' = "resolved"
    /\ UNCHANGED <<toClose, config, pc, requestApiKey, authResult, delegate, factory,
                   status, text, resState, activeTransports, inserted, closed,
                   listener, tpc, started, channel, onConnectCalls, onCloseCalls,
                   post, authCalls, created, processEnv, workerEnv, upstreamUp,
                   forwarded, closeThrew>>

\* ------------------------------------------------------- specifications

\* The connect route's steps that take an input: the credential offered (in
\* the header, in the query), the delegate's answer, what createServer does.
ConnectRoute(K, D, F) ==
    \/ \E c \in Conns, h \in K \cup {NoKey}, q \in K \cup {NoKey} :
          ConnectRequest(c, h, q)
    \/ \E c \in Conns :
          \E d \in (IF config.remoteVerification THEN D ELSE {NoDelegateCall}) :
             AuthReturn(c, d)
    \/ \E c \in Conns, r \in F : CreateReturn(c, r)

Lifecycle ==
    \/ \E c \in Conns : ConnectStart(c)
    \/ \E c \in Conns : ConnectReturn(c)
    \/ \E c \in Conns : ConnectFail(c)
    \/ \E c \in Conns : SendReturn(c)
    \/ \E c \in Conns : ResClose(c)
    \/ \E c \in Conns, threw \in BOOLEAN : ServerCloseReturn(c, threw)

MessageRoute ==
    \/ \E i \in PostIds, param \in SessionParams : PostArrive(i, param)
    \/ \E i \in PostIds : PostBody(i)
    \/ \E i \in PostIds : UpstreamRespond(i)

\* The binary with AUTH_SERVER_URL set.
BinaryRemote == [authHandler |-> TRUE, apiKey |-> NoKey, remoteVerification |-> TRUE]

\* The delegate's answers that decide admission one way and the other.
AdmitOrRefuse ==
    {[kind |-> "status", valid |-> "absent", userId |-> NoUser, env |-> UndefinedEnv],
     [kind |-> "json", valid |-> "true", userId |-> U1, env |-> UndefinedEnv]}

\* Sessions and messages: every step of both routes and of teardown, under the
\* binary's configuration, one credential and two delegate answers.
Next ==
    \/ ConnectRoute({SecretKey}, AdmitOrRefuse, FactoryResults)
    \/ Lifecycle
    \/ MessageRoute

InitBinary == Init /\ config = BinaryRemote

Spec == InitBinary /\ [][Next]_vars

\* The same, with every enabled step eventually taken: each pending promise
\* settles and each event that is due is delivered.
FairSpec == InitBinary /\ [][Next]_vars /\ WF_vars(Next)

\* Admission: the connect route and teardown under every configuration,
\* credential, delegate answer and factory result.
NextAuth ==
    \/ ConnectRoute(Keys, DelegateOutcomes, FactoryResults)
    \/ Lifecycle

SpecAuth == Init /\ [][NextAuth]_vars

\* The delegate's answers that differ in the identity they carry.
IdentityOutcomes ==
    {[kind |-> "status", valid |-> "absent", userId |-> NoUser, env |-> UndefinedEnv],
     [kind |-> "json", valid |-> "true", userId |-> U1, env |-> EnvT("a")],
     [kind |-> "json", valid |-> "true", userId |-> NoUser, env |-> EnvT("b")],
     [kind |-> "json", valid |-> "true", userId |-> NoUser, env |-> UndefinedEnv]}

\* Identity: the connect route and teardown under every configuration, with a
\* short and a long credential and delegate answers with and without userId
\* and env; createServer returns a server.
NextIdentity ==
    \/ ConnectRoute({SecretKey, LongKey}, IdentityOutcomes, {FactoryOk})
    \/ Lifecycle

SpecIdentity == Init /\ [][NextIdentity]_vars

\* The delegate admits.
Admit == {[kind |-> "json", valid |-> "true", userId |-> U1, env |-> UndefinedEnv]}

\* Upstream failure: admitted sessions, teardown, and the upstream failing at
\* any time.
NextUpstream ==
    \/ ConnectRoute({SecretKey}, Admit, {FactoryOk})
    \/ Lifecycle
    \/ UpstreamFail

\* The steps the program takes by itself: a pending promise settles (the
\* authHandler's, createServer's, server.connect's, transport.send's,
\* server.close's) and an ended response emits "close".  A new request, a peer
\* disconnecting and the upstream failing are the environment's.
Settle ==
    \/ \E c \in Conns, d \in Admit : AuthReturn(c, d)
    \/ \E c \in Conns : CreateReturn(c, FactoryOk)
    \/ \E c \in Conns : ConnectStart(c) \/ ConnectReturn(c) \/ ConnectFail(c)
    \/ \E c \in Conns : SendReturn(c)
    \/ \E c \in Conns : resState[c] = "ended" /\ ResClose(c)
    \/ \E c \in Conns, threw \in BOOLEAN : ServerCloseReturn(c, threw)

FairSpecUpstream == InitBinary /\ [][NextUpstream]_vars /\ WF_vars(Settle)

\* Shutdown: admitted sessions, teardown, and SSEServer.close() called at any
\* time.
NextShutdown ==
    \/ ConnectRoute({SecretKey}, Admit, {FactoryOk})
    \/ Lifecycle
    \/ CloseCall
    \/ CloseNext
    \/ CloseResolve

SpecShutdown == InitBinary /\ [][NextShutdown]_vars

\* --------------------------------------------------------------- claims

Registered(c) == c \in DOMAIN activeTransports

MissingCredential(c) == pc[c] # "new" /\ requestApiKey[c] = NoKey

RejectedByResolver(c) ==
    /\ pc[c] # "new"
    /\ \/ authResult[c].kind = "null"
       \/ ~config.authHandler /\ config.apiKey # NoKey /\ requestApiKey[c] # config.apiKey

\* C1: a connect request whose credential is missing, or is rejected by the
\* authHandler (null) or by the static key comparison, is answered 401 and
\* never registers a session.
C1_RejectedIs401 ==
    \A c \in Conns :
        (MissingCredential(c) \/ RejectedByResolver(c))
            => status[c] = 401 /\ ~inserted[c] /\ ~Registered(c)

\* A request was refused by the authHandler while another session is registered.
C1_Witness ==
    \E c, d \in Conns :
        /\ authResult[c].kind = "null" /\ status[c] = 401
        /\ Registered(d)

\* C2: every session in the registry was inserted by a request with a
\* non-empty credential whose authentication had already succeeded (the
\* authHandler returned an identity, or the static key matched), or with
\* authentication disabled; none is registered while its authHandler call is
\* pending or after it returned null.
C2_RegisteredWereAdmitted ==
    \A s \in DOMAIN activeTransports :
        /\ requestApiKey[s] # NoKey
        /\ IF config.authHandler
           THEN authResult[s].kind = "identity"
           ELSE config.apiKey = NoKey \/ requestApiKey[s] = config.apiKey

\* A session is registered while another request's authHandler call is pending.
C2_Witness ==
    \E s \in DOMAIN activeTransports, c \in Conns :
        authResult[s].kind = "identity" /\ authResult[c].kind = "pending"

C4_NotificationFirst ==
    \A c \in Conns :
        /\ Cardinality({k \in 1..Len(channel[c]) :
                           channel[c][k].kind = "sse/connection"}) <= 1
        /\ \A k \in 1..Len(channel[c]) :
              channel[c][k].kind = "response"
                  => \E j \in 1..(k - 1) : channel[c][j].kind = "sse/connection"

\* C5: a POST whose sessionId is missing or names no registered session is
\* answered 400 and is handed to no session's transport.
C5_UnknownSessionIs400 ==
    \A i \in PostIds :
        (post[i].state # "new" /\ ~post[i].known)
            => post[i].status = 400 /\ post[i].target = NoTarget

\* C6: once a registered session's remote connection has closed, the session
\* is eventually removed from the registry.
C6_EventuallyRemoved ==
    \A c \in Conns :
        [](inserted[c] /\ resState[c] = "closed" => <>(~Registered(c)))

\* The connect handler and the close listener of c have nothing left to run.
Quiescent(c) ==
    /\ pc[c] \in {"rejected", "failed", "attachFailed", "done", "threw"}
    /\ tpc[c] # "closing"

\* C7: teardown runs exactly once per registered session: never twice, and
\* once the session's response has closed and its handlers have run, onClose
\* has been called once and the entry is deleted.
C7_TeardownExactlyOnce ==
    \A c \in Conns :
        /\ onCloseCalls[c] <= 1
        /\ (inserted[c] /\ resState[c] = "closed" /\ Quiescent(c))
              => onCloseCalls[c] = 1 /\ ~Registered(c)

FactoryFailed(c) == factory[c].kind \in {"response", "error"}

NothingToTearDown(c) ==
    /\ ~inserted[c] /\ ~Registered(c)
    /\ ~listener[c] /\ tpc[c] = "idle" /\ onCloseCalls[c] = 0

\* C8 as stated: whatever createServer fails with, the answer is 500, no
\* session is registered and nothing is torn down.
C8_FactoryFailureIs500 ==
    \A c \in Conns :
        FactoryFailed(c) => status[c] = 500 /\ NothingToTearDown(c)

\* C8, amended: when createServer fails with a Response (of a status that
\* writeHead accepts) the answer is that Response's status and statusText, and
\* otherwise 500 "Error creating server"; in both cases no session is
\* registered and nothing is torn down.
C8_FactoryFailureReply ==
    \A c \in Conns :
        FactoryFailed(c) =>
            /\ factory[c].kind = "error"
                  => status[c] = 500 /\ text[c] = "Error creating server"
            /\ factory[c].kind = "response"
                  => status[c] = factory[c].status /\ text[c] = factory[c].statusText
            /\ NothingToTearDown(c)

\* createServer threw a Response, and threw an Error for another request.
C8_Witness ==
    \E c, d \in Conns :
        /\ factory[c].kind = "response" /\ status[c] = 403
        /\ factory[d].kind = "error" /\ status[d] = 500

\* C9: once a failure of the connect route has been handled (401, factory
\* failure, attach failure), the registry holds no entry for that request.
C9_NoEntryAfterFailure ==
    \A c \in Conns :
        pc[c] \in {"rejected", "failed", "attachFailed"} => ~Registered(c)

DelegateAccepts(d) == d.kind = "json" /\ d.valid = "true"

\* C10: with a delegate configured, the authHandler never rejects its promise;
\* it yields an identity exactly when the delegate answers a success status
\* with valid = true, and otherwise null, which is answered 401 with no
\* session registered.
C10_DelegateFailsClosed ==
    \A c \in Conns :
        delegate[c].kind # "nocall" =>
            /\ authResult[c].kind \in {"null", "identity"}
            /\ authResult[c].kind = "identity" <=> DelegateAccepts(delegate[c])
            /\ authResult[c].kind = "null"
                  => pc[c] = "rejected" /\ status[c] = 401 /\ ~inserted[c]

\* The delegate was unreachable for one request and answered without a valid
\* flag for another; both were refused.
C10_Witness ==
    \E c, d \in Conns :
        /\ delegate[c].kind = "neterror" /\ status[c] = 401
        /\ delegate[d].kind = "json" /\ delegate[d].valid = "absent" /\ status[d] = 401

\* The connect handler of c is past the admission decision.
Decided(c) == pc[c] \notin {"new", "auth"}

\* The connect handler of c went on to createServer.
Admitted(c) == pc[c] = "create" \/ factory[c].kind # "notcalled"

\* The resolution order: the delegate's answer when one is configured; else
\* equality with the static key when one is configured; else anything; and
\* never an empty credential.
ShouldAdmit(c) ==
    /\ requestApiKey[c] # NoKey
    /\ IF config.authHandler
       THEN config.remoteVerification => DelegateAccepts(delegate[c])
       ELSE config.apiKey # NoKey => requestApiKey[c] = config.apiKey

\* C11: in every configuration a connect request is admitted exactly when the
\* resolution order says so (the authHandler's answer alone when there is one,
\* else equality with the static key, else any non-empty credential; never an
\* empty one), and a request that is not admitted is answered 401.
C11_ResolutionOrder ==
    \A c \in Conns :
        Decided(c) =>
            /\ Admitted(c) <=> ShouldAdmit(c)
            /\ ~Admitted(c) => status[c] = 401 /\ ~inserted[c]

\* With a static key and no authHandler, the wrong key was answered 401 and
\* the right key registered a session.
C11_Witness ==
    \E c, d \in Conns :
        /\ ~config.authHandler /\ config.apiKey = SecretKey
        /\ requestApiKey[c] = WrongKey /\ status[c] = 401
        /\ requestApiKey[d] = SecretKey /\ Registered(d)

\* The first eight characters of a credential (all of a shorter one).
Prefix8(k) == [j \in 1..(IF Len(k) < 8 THEN Len(k) ELSE 8) |-> k[j]]

\* The userId resolved for the credential of request c: the delegate's when it
\* supplies one, else "user-" and the credential's prefix; without an
\* authHandler no identity is resolved.
ResolvedUserId(c) ==
    IF ~config.authHandler THEN NoUser
    ELSE IF config.remoteVerification /\ delegate[c].userId # NoUser
    THEN delegate[c].userId
    ELSE <<"u", "s", "e", "r", "-">> \o Prefix8(requestApiKey[c])

\* The env resolved for it: the delegate's, or an empty mapping when the
\* delegate supplies none; none without a delegate.
ResolvedEnv(c) ==
    IF config.authHandler /\ config.remoteVerification
    THEN (IF delegate[c].env.defined THEN delegate[c].env ELSE EmptyEnv)
    ELSE UndefinedEnv

C13_UpstreamFailureTearsDown ==
    \A c \in Conns :
        [](~upstreamUp /\ Registered(c) /\ resState[c] = "open"
              => <>(~Registered(c) /\ resState[c] # "open" /\ onCloseCalls[c] >= 1))

\* POST i was handed to a session's transport, which went on to read its body.
Accepted(i) == post[i].state \in {"reading", "forwarded", "answered"}

\* The place of POST i in the order of forwarding (0: not forwarded yet).
ForwardedAt(i) ==
    IF \E k \in 1..Len(forwarded) : forwarded[k] = i
    THEN CHOOSE k \in 1..Len(forwarded) : forwarded[k] = i
    ELSE 0

\* C14: of two messages accepted on the same session, the one whose POST was
\* received first is forwarded to the upstream first (POSTs are numbered in
\* the order they are received).
C14_PerSessionOrder ==
    \A i, j \in PostIds :
        (/\ i < j
         /\ Accepted(i) /\ Accepted(j)
         /\ post[i].target = post[j].target
         /\ ForwardedAt(j) # 0)
            => ForwardedAt(i) # 0 /\ ForwardedAt(i) < ForwardedAt(j)

\* C15: the value of an environment variable in effect for a registered
\* session is the one its own env mapping gives, and none when its mapping
\* gives none: neither creating another session nor an earlier, closed session
\* changes it.
C15_EnvIsolation ==
    \A s \in DOMAIN activeTransports :
        processEnv = activeTransports[s].env.T

\* C16: the authHandler is called once for each connect request that carries a
\* credential, and never again: a POST whose sessionId is registered is handed
\* to that session's transport, unauthenticated, whatever the delegate would
\* answer for the session's credential by now.
C16_NoAuthOnMessageRoute ==
    /\ \A c \in Conns :
          authCalls[c] =
              IF pc[c] # "new" /\ requestApiKey[c] # NoKey /\ config.authHandler
              THEN 1 ELSE 0
    /\ \A i \in PostIds :
          (post[i].state # "new" /\ post[i].known) =>
              /\ post[i].target = post[i].param.n
              /\ post[i].state \in {"refused", "reading", "forwarded", "answered"}
              /\ post[i].status \in {0, 202, 500}

\* A message was accepted on a session whose credential the delegate has
\* refused for another request.
C16_Witness ==
    \E i \in PostIds, c, d \in Conns :
        /\ post[i].state = "forwarded" /\ post[i].target = c
        /\ authCalls[c] = 1
        /\ requestApiKey[d] = requestApiKey[c] /\ authResult[d].kind = "null"

\* C17: whenever a lookup can run, every session in the registry is fully
\* constructed: createServer has returned, its close listener is installed and
\* its server.connect is no longer pending.
C17_NoSessionMidConstruction ==
    \A s \in DOMAIN activeTransports :
        /\ factory[s].kind = "ok"
        /\ listener[s]
        /\ pc[s] \notin {"connect", "attached"}

\* C18: for every session onConnect is called at most once and never once its
\* teardown has started or its onClose has been called, and onClose is called
\* only for a session whose onConnect has been called.
C18_LifecycleOrder ==
    [][\A c \in Conns :
          /\ onConnectCalls'[c] # onConnectCalls[c]
                => onConnectCalls[c] = 0 /\ tpc[c] = "idle" /\ onCloseCalls[c] = 0
          /\ onCloseCalls'[c] # onCloseCalls[c]
                => onConnectCalls[c] >= 1]_vars

\* C19: a POST that arrives for a session whose response has emitted "close"
\* is answered 400 and is handed to no transport, also while the close
\* listener still awaits server.close().
C19_NoPostAfterClose ==
    [][\A i \in PostIds, c \in Conns :
          (/\ post[i].state = "new" /\ post'[i].state # "new"
           /\ post'[i].param = Uuid(c)
           /\ resState[c] = "closed")
              => post'[i].status = 400 /\ post'[i].target = NoTarget]_vars

\* C20: when server.close() threw in a session's close listener, the listener
\* still ran to its end: the session is removed from the registry and onClose
\* has been called for it exactly once.
C20_CleanupErrorStillRemoves ==
    \A c \in Conns :
        closeThrew[c] =>
            /\ tpc[c] = "done"
            /\ ~Registered(c)
            /\ onCloseCalls[c] = 1

\* server.close() threw for a session that had been registered, while another
\* session stays registered.
C20_Witness ==
    \E c, d \in Conns :
        /\ closeThrew[c] /\ inserted[c] /\ onCloseCalls[c] = 1
        /\ Registered(d)

\* C21: once the promise of SSEServer.close() has resolved, the registry is
\* empty and every session that was registered has been destroyed: its
\* push-channel is closed and onClose has been called for it exactly once.
C21_ShutdownDestroysAll ==
    shutdown = "resolved" =>
        /\ DOMAIN activeTransports = {}
        /\ \A c \in Conns :
              inserted[c] => resState[c] = "closed" /\ onCloseCalls[c] = 1

\* This step is one of session a's teardown: its response emits "close", or
\* its close listener moves on.
TeardownStep(a) ==
    \/ resState[a] # "closed" /\ resState'[a] = "closed"
    \/ tpc'[a] # tpc[a]

\* C22: a step of session a's teardown removes no registry entry but a's and
\* leaves every other session's entry, push-channel and handlers as they were;
\* it neither closes the upstream nor sends it anything, and no request that
\* is outstanding there is withdrawn.
C22_TeardownFrame ==
    [][\A a \in Conns :
          TeardownStep(a) =>
              /\ \A b \in Conns \ {a} :
                    /\ Registered(b) <=> (b \in DOMAIN activeTransports')
                    /\ Registered(b) => activeTransports'[b] = activeTransports[b]
                    /\ resState'[b] = resState[b]
                    /\ started'[b] = started[b]
                    /\ channel'[b] = channel[b]
                    /\ pc'[b] = pc[b] /\ tpc'[b] = tpc[b] /\ closed'[b] = closed[b]
              /\ upstreamUp' = upstreamUp
              /\ forwarded' = forwarded
              /\ post' = post]_vars

\* One session has been torn down; another is still registered, its
\* push-channel open, and has received the response to a request.
C22_Witness ==
    \E a, b \in Conns :
        /\ a # b
        /\ inserted[a] /\ tpc[a] = "done" /\ ~Registered(a)
        /\ Registered(b) /\ resState[b] = "open" /\ upstreamUp
        /\ \E k \in 1..Len(channel[b]) : channel[b][k].kind = "response"
====
